---- MODULE Spec2Model ----
(***************************************************************************)
(* CHIP-8 interpreter (src/src/main.rs) and its SDL host loop              *)
(* (src/src/gfx.rs) as a state machine.                                    *)
(*                                                                         *)
(* The machine (struct Chip) is one record, `chip`.  Chip::exec is the     *)
(* operator Exec, one operator per match arm, each returning the machine   *)
(* after the arm together with the Result of the call.  A Rust panic (an   *)
(* index out of range, or an arithmetic overflow in a build with overflow  *)
(* checks) is the result tag "Panic".                                      *)
(***************************************************************************)
EXTENDS Integers, Naturals, Sequences, FiniteSets, TLC

VARIABLES
    chip,             \* struct Chip
    pc,               \* where the host is: poll, pause, cycles, wait_for_key, freeze, exited, panicked
    key_matrix,       \* spawn_window's key_matrix: [bool; 16]
    p,                \* spawn_window's local p (pause requested in this frame)
    cycle_i,          \* the index of `for _ in 0..CYCLES_PER_FRAME`
    next,             \* Chip::cycle's local `next`: the last instruction word fetched
    result,           \* what the last Chip::cycle call returned
    overflow_checks,  \* the build: TRUE when integer overflow panics (debug), FALSE when it wraps
    fetched_at,       \* history: the address the last instruction was fetched at
    since_clear,      \* history: the sprites drawn (Ok) since 00E0 or construction last left the framebuffer clear; three entries stand for three or more
    calls             \* history: for each open call, the address it was fetched at and the stack before it

vars == <<chip, pc, key_matrix, p, cycle_i, next, result, overflow_checks,
          fetched_at, since_clear, calls>>

----------------------------------------------------------------------------
(* Program constants *)

LOAD_ADDR == 512
SCREEN_HEIGHT == 32
SCREEN_WIDTH == 64
MEMORY_LEN == 4096
VIDEO_LEN == SCREEN_WIDTH * SCREEN_HEIGHT
CYCLES_PER_FRAME == 20
U8_MAX == 255
U16_MAX == 65535

(* Bounds of the model *)

\* the call stack is a Vec: the model stops calling at this depth
MaxStack == 3
\* how many of the keys of KeyOrder the keyboard of the model has
NumKeys == 1

----------------------------------------------------------------------------
(* Bytes and bits *)

Bit(v, k) == (v \div (2 ^ k)) % 2

RECURSIVE BitWise(_, _, _, _)
BitWise(a, b, k, f) ==
    IF k = 8 THEN 0
    ELSE (IF f[Bit(a, k)][Bit(b, k)] = 1 THEN 2 ^ k ELSE 0) + BitWise(a, b, k + 1, f)

BitOr(a, b)  == BitWise(a, b, 0, 0 :> (0 :> 0 @@ 1 :> 1) @@ 1 :> (0 :> 1 @@ 1 :> 1))
BitAnd(a, b) == BitWise(a, b, 0, 0 :> (0 :> 0 @@ 1 :> 0) @@ 1 :> (0 :> 0 @@ 1 :> 1))
BitXor(a, b) == BitWise(a, b, 0, 0 :> (0 :> 0 @@ 1 :> 1) @@ 1 :> (0 :> 1 @@ 1 :> 0))

\* a split that shifts the second nibble down without masking it
Nibbles_SecondUnmasked(instr) ==
    << (instr \div 4096) % 16, instr \div 256, (instr \div 16) % 16, instr % 16 >>

Nibbles(instr) ==
    << (instr \div 4096) % 16, (instr \div 256) % 16, (instr \div 16) % 16, instr % 16 >>

u16_from_nibbles_3(n1, n2, n3) == n1 * 256 + n2 * 16 + n3

u8_from_nibbles_2(n2, n3) == n2 * 16 + n3

\* digits whose tens digit is not reduced by the hundreds
binary_coded_decimal_TensNotReduced(value) ==
    << value \div 100, value \div 10, value - (value \div 10) * 10 >>

binary_coded_decimal(value) ==
    << value \div 100,
       (value \div 10) - (value \div 100) * 10,
       value - (value \div 10) * 10 >>

FONT_DATA ==
    << 240, 144, 144, 144, 240,
        32,  96,  32,  32, 112,
       240,  16, 240, 128, 240,
       240,  16, 240,  16, 240,
       144, 144, 240,  16,  16,
       240, 128, 240,  16, 240,
       240, 128, 240, 144, 240,
       240,  16,  32,  64,  64,
       240, 144, 240, 144, 240,
       240, 144, 240,  16, 240,
       240, 144, 240, 144, 144,
       224, 144, 224, 144, 224,
       240, 128, 128, 128, 240,
       224, 144, 144, 144, 224,
       240, 128, 240, 128, 240,
       240, 128, 240, 128, 128 >>

----------------------------------------------------------------------------
(* Results of exec and cycle: Ok(()), Err(ChipException), or a panic *)

ROk == [tag |-> "Ok", arg |-> 0]
RErr(t) == [tag |-> t, arg |-> 0]
RArg(t, a) == [tag |-> t, arg |-> a]
RPanic == [tag |-> "Panic", arg |-> 0]

Out(c, r) == [chip |-> c, res |-> r]

FatalTags == {"InvalidRegister", "ReturnOutsideSubroutine", "IllegalInstruction",
              "InvalidFontCodePoint", "DrawingOutOfBounds"}
SuspendTags == {"WaitForKey", "SkipIfPressed", "SkipIfNotPressed"}

\* a + b in u16: the sum, or -1 where the build panics on the overflow
AddU16(a, b, oc) ==
    IF a + b > U16_MAX THEN (IF oc THEN -1 ELSE (a + b) % (U16_MAX + 1)) ELSE a + b

\* a + b in u8: the sum, or -1 where the build panics on the overflow
AddU8(a, b, oc) ==
    IF a + b > U8_MAX THEN (IF oc THEN -1 ELSE (a + b) % (U8_MAX + 1)) ELSE a + b

SetReg(c, x, v) == [c EXCEPT !.data_regs[x] = v]

InvalidRegister(c) == Out(c, RErr("InvalidRegister"))

\* self.ip += 2
SkipNext(c, oc) ==
    IF AddU16(c.ip, 2, oc) < 0 THEN Out(c, RPanic)
    ELSE Out([c EXCEPT !.ip = AddU16(c.ip, 2, oc)], ROk)

----------------------------------------------------------------------------
(* Chip::exec, arm by arm, in the order of the match *)

Op_00E0(c) ==
    Out([c EXCEPT !.video_memory = [i \in 0 .. VIDEO_LEN - 1 |-> 0]], ROk)

\* a return that does nothing, and reports success, when the stack is empty
Op_00EE_IgnoreEmpty(c) ==
    IF Len(c.stack) > 0
    THEN Out([c EXCEPT !.ip = c.stack[Len(c.stack)],
                       !.stack = SubSeq(c.stack, 1, Len(c.stack) - 1)], ROk)
    ELSE Out(c, ROk)

Op_00EE(c) ==
    IF Len(c.stack) > 0
    THEN Out([c EXCEPT !.ip = c.stack[Len(c.stack)],
                       !.stack = SubSeq(c.stack, 1, Len(c.stack) - 1)], ROk)
    ELSE Out(c, RErr("ReturnOutsideSubroutine"))

Op_0nnn(c, n1, n2, n3) ==
    Out([c EXCEPT !.stack = Append(c.stack, c.ip),
                  !.ip = u16_from_nibbles_3(n1, n2, n3)], ROk)

Op_1nnn(c, n1, n2, n3) ==
    Out([c EXCEPT !.ip = u16_from_nibbles_3(n1, n2, n3)], ROk)

\* a call that saves the address of the call itself instead of the return address
Op_2nnn_PushCallSite(c, n1, n2, n3) ==
    Out([c EXCEPT !.stack = Append(c.stack, c.ip - 2),
                  !.ip = u16_from_nibbles_3(n1, n2, n3)], ROk)

Op_2nnn(c, n1, n2, n3) ==
    Out([c EXCEPT !.stack = Append(c.stack, c.ip),
                  !.ip = u16_from_nibbles_3(n1, n2, n3)], ROk)

Op_3xnn(c, x, n1, n2, oc) ==
    IF x > 15 THEN InvalidRegister(c)
    ELSE IF c.data_regs[x] = u8_from_nibbles_2(n1, n2) THEN SkipNext(c, oc)
    ELSE Out(c, ROk)

Op_4xnn(c, x, n1, n2, oc) ==
    IF x > 15 THEN InvalidRegister(c)
    ELSE IF c.data_regs[x] # u8_from_nibbles_2(n1, n2) THEN SkipNext(c, oc)
    ELSE Out(c, ROk)

Op_5xy0(c, x, y, oc) ==
    IF x > 15 \/ y > 15 THEN InvalidRegister(c)
    ELSE IF c.data_regs[x] = c.data_regs[y] THEN SkipNext(c, oc)
    ELSE Out(c, ROk)

Op_6xnn(c, x, n1, n2) ==
    IF x > 15 THEN InvalidRegister(c)
    ELSE Out(SetReg(c, x, u8_from_nibbles_2(n1, n2)), ROk)

Op_7xnn(c, x, n1, n2) ==
    IF x > 15 THEN InvalidRegister(c)
    ELSE Out(SetReg(c, x, (c.data_regs[x] + u8_from_nibbles_2(n1, n2)) % 256), ROk)

Op_8xy0(c, x, y) ==
    IF x > 15 \/ y > 15 THEN InvalidRegister(c)
    ELSE Out(SetReg(c, x, c.data_regs[y]), ROk)

Op_8xy1(c, x, y) ==
    IF x > 15 \/ y > 15 THEN InvalidRegister(c)
    ELSE Out(SetReg(c, x, BitOr(c.data_regs[x], c.data_regs[y])), ROk)

Op_8xy2(c, x, y) ==
    IF x > 15 \/ y > 15 THEN InvalidRegister(c)
    ELSE Out(SetReg(c, x, BitAnd(c.data_regs[x], c.data_regs[y])), ROk)

Op_8xy3(c, x, y) ==
    IF x > 15 \/ y > 15 THEN InvalidRegister(c)
    ELSE Out(SetReg(c, x, BitXor(c.data_regs[x], c.data_regs[y])), ROk)

\* overflowing_add, then data_regs[0xF] = carry, then data_regs[x] = new_rx
Op_8xy4(c, x, y) ==
    IF x > 15 \/ y > 15 THEN InvalidRegister(c)
    ELSE LET sum    == c.data_regs[x] + c.data_regs[y]
             new_rx == sum % 256
             carry  == IF sum > 255 THEN 1 ELSE 0
         IN  Out(SetReg(SetReg(c, 15, carry), x, new_rx), ROk)

\* overflowing_sub, then data_regs[0xF] = borrow, then data_regs[x] = new_rx
Op_8xy5(c, x, y) ==
    IF x > 15 \/ y > 15 THEN InvalidRegister(c)
    ELSE LET diff   == c.data_regs[x] - c.data_regs[y]
             new_rx == diff % 256
             borrow == IF diff < 0 THEN 1 ELSE 0
         IN  Out(SetReg(SetReg(c, 15, borrow), x, new_rx), ROk)

\* data_regs[x] = data_regs[y] >> 1, then data_regs[0xF] = data_regs[y] & 1,
\* the second statement reading data_regs[y] as the first left it
Op_8xy6(c, x, y) ==
    IF x > 15 \/ y > 15 THEN InvalidRegister(c)
    ELSE LET c1 == SetReg(c, x, c.data_regs[y] \div 2)
         IN  Out(SetReg(c1, 15, c1.data_regs[y] % 2), ROk)

Op_8xy7(c, x, y) ==
    IF x > 15 \/ y > 15 THEN InvalidRegister(c)
    ELSE LET diff   == c.data_regs[y] - c.data_regs[x]
             new_rx == diff % 256
             borrow == IF diff < 0 THEN 1 ELSE 0
         IN  Out(SetReg(SetReg(c, 15, borrow), x, new_rx), ROk)

\* data_regs[x] = data_regs[y] << 1, then data_regs[0xF] = data_regs[y] >> 7
Op_8xyE(c, x, y) ==
    IF x > 15 \/ y > 15 THEN InvalidRegister(c)
    ELSE LET c1 == SetReg(c, x, (c.data_regs[y] * 2) % 256)
         IN  Out(SetReg(c1, 15, c1.data_regs[y] \div 128), ROk)

\* a 9xy0 that skips when the registers are equal
Op_9xy0_SkipIfEqual(c, x, y, oc) ==
    IF x > 15 \/ y > 15 THEN InvalidRegister(c)
    ELSE IF c.data_regs[x] = c.data_regs[y] THEN SkipNext(c, oc)
    ELSE Out(c, ROk)

Op_9xy0(c, x, y, oc) ==
    IF x > 15 \/ y > 15 THEN InvalidRegister(c)
    ELSE IF c.data_regs[x] # c.data_regs[y] THEN SkipNext(c, oc)
    ELSE Out(c, ROk)

Op_Annn(c, n1, n2, n3) ==
    Out([c EXCEPT !.addr_reg = u16_from_nibbles_3(n1, n2, n3)], ROk)

Op_Bnnn(c, n1, n2, n3, oc) ==
    LET target == AddU16(c.data_regs[0], u16_from_nibbles_3(n1, n2, n3), oc)
    IN  IF target < 0 THEN Out(c, RPanic) ELSE Out([c EXCEPT !.ip = target], ROk)

\* rnd is the byte rand::random::<u8>() returns
Op_Cxnn(c, x, n1, n2, rnd) ==
    IF x > 15 THEN InvalidRegister(c)
    ELSE Out(SetReg(c, x, BitAnd(rnd, u8_from_nibbles_2(n1, n2))), ROk)

\* a draw that overwrites the cell instead of XOR-ing it
XorPixel_Overwrite(v) == 1

\* self.video_memory[pixel_offset] ^= 1
XorPixel(v) == IF v = 1 THEN 0 ELSE 1

\* the sprite loops of Dxyn from cell k = row * 8 + col on; video and set_flag are
\* the framebuffer and the local as the cells before k left them
RECURSIVE DrawFrom(_, _, _, _, _, _, _, _)
DrawFrom(c, k, n, video, set_flag, start_row, start_col, oc) ==
    IF k = 8 * n
    THEN Out([c EXCEPT !.video_memory = video, !.data_regs[15] = set_flag], ROk)
    ELSE
        LET row  == k \div 8
            col  == k % 8
            addr == AddU16(c.addr_reg, row, oc)
            stop == [c EXCEPT !.video_memory = video]
        IN  IF addr < 0 \/ addr >= MEMORY_LEN THEN Out(stop, RPanic)
            ELSE IF Bit(c.memory[addr], 7 - col) = 0
            THEN DrawFrom(c, k + 1, n, video, set_flag, start_row, start_col, oc)
            ELSE
                LET pixel_row == AddU8(start_row, row, oc)
                    pixel_col == AddU8(start_col, col, oc)
                    pixel_offset == pixel_row * SCREEN_WIDTH + pixel_col
                IN  IF pixel_row < 0 \/ pixel_col < 0 THEN Out(stop, RPanic)
                    ELSE IF pixel_offset > VIDEO_LEN
                    THEN Out(stop, RArg("DrawingOutOfBounds", pixel_offset))
                    ELSE IF pixel_offset >= VIDEO_LEN THEN Out(stop, RPanic)
                    ELSE
                        LET v == XorPixel(video[pixel_offset])
                        IN  DrawFrom(c, k + 1, n, [video EXCEPT ![pixel_offset] = v],
                                     IF v = 0 THEN 1 ELSE set_flag,
                                     start_row, start_col, oc)

Op_Dxyn(c, x, y, n, oc) ==
    DrawFrom(c, 0, n, c.video_memory, 0, c.data_regs[y], c.data_regs[x], oc)

Op_Ex9E(c, x) ==
    IF x > 15 THEN InvalidRegister(c) ELSE Out(c, RArg("SkipIfPressed", x))

Op_ExA1(c, x) ==
    IF x > 15 THEN InvalidRegister(c) ELSE Out(c, RArg("SkipIfNotPressed", x))

Op_Fx07(c, x) ==
    IF x > 15 THEN InvalidRegister(c) ELSE Out(SetReg(c, x, c.delay_timer), ROk)

\* a wait for a key that resets the register it will receive the key in
Op_Fx0A_ResetsRegister(c, x) ==
    IF x > 15 THEN InvalidRegister(c) ELSE Out(SetReg(c, x, 0), RArg("WaitForKey", x))

Op_Fx0A(c, x) ==
    IF x > 15 THEN InvalidRegister(c) ELSE Out(c, RArg("WaitForKey", x))

Op_Fx15(c, x) ==
    IF x > 15 THEN InvalidRegister(c)
    ELSE Out([c EXCEPT !.delay_timer = c.data_regs[x]], ROk)

Op_Fx18(c, x) ==
    IF x > 15 THEN InvalidRegister(c)
    ELSE Out([c EXCEPT !.sound_timer = c.data_regs[x]], ROk)

Op_Fx1E(c, x) ==
    IF x > 15 THEN InvalidRegister(c)
    ELSE Out([c EXCEPT !.addr_reg = (c.addr_reg + c.data_regs[x]) % (U16_MAX + 1)], ROk)

\* a font lookup that does not check the code point
Op_Fx29_NoCheck(c, x) ==
    IF x > 15 THEN InvalidRegister(c)
    ELSE Out([c EXCEPT !.addr_reg = c.data_regs[x] * 5], ROk)

Op_Fx29(c, x) ==
    IF x > 15 THEN InvalidRegister(c)
    ELSE IF c.data_regs[x] > 15 THEN Out(c, RErr("InvalidFontCodePoint"))
    ELSE Out([c EXCEPT !.addr_reg = c.data_regs[x] * 5], ROk)

\* self.memory[(self.addr_reg + i) as usize] = bytes[i + 1] for i = k .. Len(bytes) - 1,
\* stopping at the first store that panics
RECURSIVE StoreFrom(_, _, _, _)
StoreFrom(c, bytes, k, oc) ==
    IF k = Len(bytes) THEN Out(c, ROk)
    ELSE LET addr == AddU16(c.addr_reg, k, oc)
         IN  IF addr < 0 \/ addr >= MEMORY_LEN THEN Out(c, RPanic)
             ELSE StoreFrom([c EXCEPT !.memory[addr] = bytes[k + 1]], bytes, k + 1, oc)

Op_Fx33(c, x, oc) ==
    IF x > 15 THEN InvalidRegister(c)
    ELSE StoreFrom(c, binary_coded_decimal(c.data_regs[x]), 0, oc)

Op_Fx55(c, x, oc) ==
    IF x > 15 THEN InvalidRegister(c)
    ELSE StoreFrom(c, [i \in 1 .. x + 1 |-> c.data_regs[i - 1]], 0, oc)

\* self.data_regs[i] = self.memory[(self.addr_reg + i) as usize] for i = k ..= x
RECURSIVE LoadFrom(_, _, _, _)
LoadFrom(c, x, k, oc) ==
    IF k = x + 1 THEN Out(c, ROk)
    ELSE LET addr == AddU16(c.addr_reg, k, oc)
         IN  IF addr < 0 \/ addr >= MEMORY_LEN THEN Out(c, RPanic)
             ELSE LoadFrom(SetReg(c, k, c.memory[addr]), x, k + 1, oc)

\* a load of the registers below x only
Op_Fx65_Exclusive(c, x, oc) ==
    IF x > 15 THEN InvalidRegister(c) ELSE LoadFrom(c, x - 1, 0, oc)

Op_Fx65(c, x, oc) ==
    IF x > 15 THEN InvalidRegister(c) ELSE LoadFrom(c, x, 0, oc)

\* a default arm that lets the word pass as a no-op
IllegalInstruction_Ignored(c) == Out(c, ROk)

IllegalInstruction(c) == Out(c, RErr("IllegalInstruction"))

\* the match of exec, first arm first; rnd is the random byte a Cxnn draws
exec(c, instr, rnd, oc) ==
    LET nb == Nibbles(instr)
        a == nb[1]
        b == nb[2]
        d == nb[3]
        e == nb[4]
    IN  CASE a = 0 /\ b = 0 /\ d = 14 /\ e = 0  -> Op_00E0(c)
          [] a = 0 /\ b = 0 /\ d = 14 /\ e = 14 -> Op_00EE(c)
          [] a = 0 /\ ~(b = 0 /\ d = 14 /\ e \in {0, 14}) -> Op_0nnn(c, b, d, e)
          [] a = 1 -> Op_1nnn(c, b, d, e)
          [] a = 2 -> Op_2nnn(c, b, d, e)
          [] a = 3 -> Op_3xnn(c, b, d, e, oc)
          [] a = 4 -> Op_4xnn(c, b, d, e, oc)
          [] a = 5 /\ e = 0 -> Op_5xy0(c, b, d, oc)
          [] a = 6 -> Op_6xnn(c, b, d, e)
          [] a = 7 -> Op_7xnn(c, b, d, e)
          [] a = 8 /\ e = 0 -> Op_8xy0(c, b, d)
          [] a = 8 /\ e = 1 -> Op_8xy1(c, b, d)
          [] a = 8 /\ e = 2 -> Op_8xy2(c, b, d)
          [] a = 8 /\ e = 3 -> Op_8xy3(c, b, d)
          [] a = 8 /\ e = 4 -> Op_8xy4(c, b, d)
          [] a = 8 /\ e = 5 -> Op_8xy5(c, b, d)
          [] a = 8 /\ e = 6 -> Op_8xy6(c, b, d)
          [] a = 8 /\ e = 7 -> Op_8xy7(c, b, d)
          [] a = 8 /\ e = 14 -> Op_8xyE(c, b, d)
          [] a = 9 /\ e = 0 -> Op_9xy0(c, b, d, oc)
          [] a = 10 -> Op_Annn(c, b, d, e)
          [] a = 11 -> Op_Bnnn(c, b, d, e, oc)
          [] a = 12 -> Op_Cxnn(c, b, d, e, rnd)
          [] a = 13 -> Op_Dxyn(c, b, d, e, oc)
          [] a = 14 /\ d = 9 /\ e = 14 -> Op_Ex9E(c, b)
          [] a = 14 /\ d = 10 /\ e = 1 -> Op_ExA1(c, b)
          [] a = 15 /\ d = 0 /\ e = 7 -> Op_Fx07(c, b)
          [] a = 15 /\ d = 0 /\ e = 10 -> Op_Fx0A(c, b)
          [] a = 15 /\ d = 1 /\ e = 5 -> Op_Fx15(c, b)
          [] a = 15 /\ d = 1 /\ e = 8 -> Op_Fx18(c, b)
          [] a = 15 /\ d = 1 /\ e = 14 -> Op_Fx1E(c, b)
          [] a = 15 /\ d = 2 /\ e = 9 -> Op_Fx29(c, b)
          [] a = 15 /\ d = 3 /\ e = 3 -> Op_Fx33(c, b, oc)
          [] a = 15 /\ d = 5 /\ e = 5 -> Op_Fx55(c, b, oc)
          [] a = 15 /\ d = 6 /\ e = 5 -> Op_Fx65(c, b, oc)
          [] OTHER -> IllegalInstruction(c)

\* u16::from_be_bytes([hi, lo])
from_be_bytes(hi, lo) == hi * 256 + lo

\* memory[ip] and memory[ip + 1] are both inside the memory
FetchInRange(c) == c.ip < MEMORY_LEN /\ c.ip + 1 < MEMORY_LEN

\* the word Chip::cycle fetches
Fetch(c) == from_be_bytes(c.memory[c.ip], c.memory[c.ip + 1])

\* a cycle that dispatches without advancing the pointer
cycle_NoAdvance(c, rnd, oc) ==
    IF ~FetchInRange(c) THEN Out(c, RPanic)
    ELSE exec(c, Fetch(c), rnd, oc)

\* Chip::cycle: fetch, advance the pointer, exec
cycle(c, rnd, oc) ==
    IF ~FetchInRange(c) THEN Out(c, RPanic)
    ELSE IF AddU16(c.ip, 2, oc) < 0 THEN Out(c, RPanic)
    ELSE exec([c EXCEPT !.ip = AddU16(c.ip, 2, oc)], Fetch(c), rnd, oc)

----------------------------------------------------------------------------
(* Chip::default and load_program *)

ChipDefault ==
    [ memory       |-> [i \in 0 .. MEMORY_LEN - 1 |-> IF i < 80 THEN FONT_DATA[i + 1] ELSE 0],
      ip           |-> LOAD_ADDR,
      video_memory |-> [i \in 0 .. VIDEO_LEN - 1 |-> 0],
      stack        |-> << >>,
      data_regs    |-> [i \in 0 .. 15 |-> 0],
      addr_reg     |-> 0,
      delay_timer  |-> 0,
      sound_timer  |-> 0 ]

\* A program image is given by the 16-bit words it holds at even offsets of the
\* file (a function from memory addresses to words); every other byte of the file
\* is 0.  read() copies the file to memory[LOAD_ADDR ..].
RECURSIVE CopyWords(_, _, _)
CopyWords(mem, image, addrs) ==
    IF addrs = {} THEN mem
    ELSE LET a == CHOOSE x \in addrs : TRUE
         IN  CopyWords([mem EXCEPT ![a] = image[a] \div 256, ![a + 1] = image[a] % 256],
                       image, addrs \ {a})

load_program(c, image) ==
    [c EXCEPT !.memory = CopyWords(c.memory, image, DOMAIN image)]

\* the image holding the words ws at LOAD_ADDR, LOAD_ADDR + 2, ...
Straight(ws) == [a \in {LOAD_ADDR + 2 * (k - 1) : k \in 1 .. Len(ws)} |->
                    ws[((a - LOAD_ADDR) \div 2) + 1]]

W(a, b, d, e) == a * 4096 + b * 256 + d * 16 + e
WX(a, x, kk) == a * 4096 + x * 256 + kk
WN(a, nnn) == a * 4096 + nnn

----------------------------------------------------------------------------
(* The program images the model loads *)

AluRegs == { <<0, 1>>, <<0, 0>>, <<15, 0>>, <<0, 15>>, <<15, 15>> }
AluVals == {1, 2, 128, 255}
AluOps == {4, 5, 6, 7, 14}

\* 6x a ; 6y b ; 8xyN
AluPrograms ==
    { Straight(<< WX(6, r[1], a), WX(6, r[2], b), W(8, r[1], r[2], op) >>) :
        r \in AluRegs, a \in AluVals, b \in AluVals, op \in AluOps }

\* Fx0A, and 6x v ; Ex9E or ExA1
KeyPrograms ==
    { Straight(<< WX(15, x, 10) >>) : x \in {0, 15} }
    \cup { Straight(<< WX(6, 0, v), WX(14, 0, kk) >>) : v \in {1, 4, 16}, kk \in {158, 161} }

TimerVals == {0, 1, 3}

\* 60 v ; F015 ; 61 w ; F118 ; 1208
TimerPrograms ==
    { Straight(<< WX(6, 0, v), WX(15, 0, 21), WX(6, 1, w), WX(15, 1, 24), WN(1, 520) >>) :
        v \in TimerVals, w \in TimerVals }

DrawRegs == { <<0, 1>>, <<15, 1>>, <<0, 15>> }
DrawOrigins == { <<0, 0>>, <<60, 0>>, <<62, 31>>, <<0, 31>>, <<0, 32>>, <<1, 32>>, <<253, 0>> }
DrawAddrs == {0, 5, 4095}
DrawHeights == {0, 1, 5}

\* 6x vx ; 6y vy ; Annn ; 00E0 ; Dxyn ; Dxyn
DrawPrograms ==
    { Straight(<< WX(6, r[1], o[1]), WX(6, r[2], o[2]), WN(10, i), W(0, 0, 14, 0),
                  W(13, r[1], r[2], n), W(13, r[1], r[2], n) >>) :
        r \in DrawRegs, o \in DrawOrigins, i \in DrawAddrs, n \in DrawHeights }

CallPrograms ==
    { \* 2204 ; 1202 ; 00EE
      Straight(<< WN(2, 516), WN(1, 514), W(0, 0, 14, 14) >>),
      \* 0204 ; 1202 ; 00EE
      Straight(<< WN(0, 516), WN(1, 514), W(0, 0, 14, 14) >>),
      \* 2206 ; 1202 ; 00EE ; 2204 ; 00EE
      Straight(<< WN(2, 518), WN(1, 514), W(0, 0, 14, 14), WN(2, 516), W(0, 0, 14, 14) >>),
      \* 2200
      Straight(<< WN(2, 512) >>),
      \* 00EE
      Straight(<< W(0, 0, 14, 14) >>),
      \* 1FFE ; ... ; 00EE at 0x204 ; ... ; 2204 at 0xFFE
      (512 :> WN(1, 4094)) @@ (516 :> W(0, 0, 14, 14)) @@ (4094 :> WN(2, 516)) }

EdgePrograms ==
    { \* 1FFF
      Straight(<< WN(1, 4095) >>),
      \* AFFF ; F033
      Straight(<< WN(10, 4095), WX(15, 0, 51) >>),
      \* AFFF ; F155
      Straight(<< WN(10, 4095), WX(15, 1, 85) >>),
      \* AFFF ; F165
      Straight(<< WN(10, 4095), WX(15, 1, 101) >>) }

StrayReturnPrograms ==
    { \* 6005 ; F015 ; 6107 ; 00EE
      Straight(<< WX(6, 0, 5), WX(15, 0, 21), WX(6, 1, 7), W(0, 0, 14, 14) >>),
      \* 2204 ; 00EE ; 00EE
      Straight(<< WN(2, 516), W(0, 0, 14, 14), W(0, 0, 14, 14) >>) }

\* A04E ; 60AA ; 61BB ; F155, and A000 ; F055
GlyphStorePrograms ==
    { Straight(<< WN(10, 78), WX(6, 0, 170), WX(6, 1, 187), WX(15, 1, 85) >>),
      Straight(<< WN(10, 0), WX(15, 0, 85) >>) }

IllegalWords ==
    { W(5, 0, 1, 1), W(5, 0, 1, 15), W(8, 0, 1, 8), W(8, 0, 1, 9), W(8, 0, 1, 10),
      W(8, 0, 1, 11), W(8, 0, 1, 12), W(8, 0, 1, 13), W(8, 0, 1, 15), W(9, 0, 1, 1),
      W(9, 0, 1, 15), WX(14, 0, 0), WX(14, 0, 159), WX(14, 0, 160), WX(14, 0, 255),
      WX(15, 0, 0), WX(15, 0, 8), WX(15, 0, 84), WX(15, 0, 102), WX(15, 0, 255) }

\* A123 ; 6105 ; F115 ; w
IllegalPrograms ==
    { Straight(<< WN(10, 291), WX(6, 1, 5), WX(15, 1, 21), w >>) : w \in IllegalWords }

FontRegs == {0, 15}
FontVals == {0, 9, 15, 16, 255}

\* A123 ; 6x v ; Fx29
FontPrograms ==
    { Straight(<< WN(10, 291), WX(6, x, v), WX(15, x, 41) >>) : x \in FontRegs, v \in FontVals }

BcdRegs == {0, 15}
BcdVals == {7, 190, 255}
BcdAddrs == {0, 768, 4093}

\* Annn ; 6x v ; Fx33
BcdPrograms ==
    { Straight(<< WN(10, i), WX(6, x, v), WX(15, x, 51) >>) :
        x \in BcdRegs, v \in BcdVals, i \in BcdAddrs }

SkipRegs == { <<0, 1>>, <<1, 1>>, <<15, 0>> }
SkipVals == { <<7, 7>>, <<7, 8>>, <<0, 7>> }

\* 6x a ; 6y b ; 3x07 ; 7201 ; 4x07 ; 7201 ; 5xy0 ; 7201 ; 9xy0 ; 7201
SkipPrograms ==
    { Straight(<< WX(6, r[1], v[1]), WX(6, r[2], v[2]),
                  WX(3, r[1], 7), WX(7, 2, 1), WX(4, r[1], 7), WX(7, 2, 1),
                  W(5, r[1], r[2], 0), WX(7, 2, 1), W(9, r[1], r[2], 0), WX(7, 2, 1) >>) :
        r \in SkipRegs, v \in SkipVals }

\* 60F0 ; F015 ; 610F ; 7020 ; 8013 ; 8012 ; 8011 ; 8100 ; C201 ; F307 ; AFFF ;
\* F01E ; B210
OtherPrograms ==
    { Straight(<< WX(6, 0, 240), WX(15, 0, 21), WX(6, 1, 15), WX(7, 0, 32), W(8, 0, 1, 3),
                  W(8, 0, 1, 2), W(8, 0, 1, 1), W(8, 1, 0, 0), WX(12, 2, 1), WX(15, 3, 7),
                  WN(10, 4095), WX(15, 0, 30), WN(11, 528) >>) }

SuspendRegs == {0, 15}
SuspendWords == {158, 161}

\* 2202 ; A000 ; D225 ; A123 ; 6x01 ; 6205 ; F215 ; then Ex9E, ExA1 or Fx0A
SuspendPrograms ==
    { Straight(<< WN(2, 514), WN(10, 0), W(13, 2, 2, 5), WN(10, 291), WX(6, x, 1),
                  WX(6, 2, 5), WX(15, 2, 21), WX(14, x, kk) >>) :
        x \in SuspendRegs, kk \in SuspendWords }
    \cup { Straight(<< WN(2, 514), WN(10, 0), W(13, 2, 2, 5), WN(10, 291), WX(6, x, 1),
                       WX(6, 2, 5), WX(15, 2, 21), WX(15, x, 10) >>) :
        x \in SuspendRegs }

StoreLoadRegs == {0, 1, 15}
StoreLoadAddrs == {768, 4080}

\* Annn ; 6011 ; 6122 ; 6F33 ; Fx55 ; 6044 ; 6155 ; 6F66 ; Fx65, the same with
\* Fx65 right after Fx55, and A200 ; F165
StoreLoadPrograms ==
    { Straight(<< WN(10, i), WX(6, 0, 17), WX(6, 1, 34), WX(6, 15, 51), WX(15, x, 85),
                  WX(6, 0, 68), WX(6, 1, 85), WX(6, 15, 102), WX(15, x, 101) >>) :
        x \in StoreLoadRegs, i \in StoreLoadAddrs }
    \cup { Straight(<< WN(10, i), WX(6, 0, 17), WX(6, 1, 34), WX(6, 15, 51), WX(15, x, 85),
                       WX(15, x, 101) >>) :
        x \in StoreLoadRegs, i \in StoreLoadAddrs }
    \cup { Straight(<< WN(10, LOAD_ADDR), WX(15, 1, 101) >>) }

Programs ==
    AluPrograms \cup KeyPrograms \cup TimerPrograms \cup DrawPrograms
        \cup CallPrograms \cup EdgePrograms \cup StrayReturnPrograms
        \cup GlyphStorePrograms \cup IllegalPrograms \cup FontPrograms
        \cup BcdPrograms \cup SkipPrograms \cup OtherPrograms \cup SuspendPrograms
        \cup StoreLoadPrograms

----------------------------------------------------------------------------
(* The keyboard and the SDL events *)

KEY_MAP == << "X", "1", "2", "3", "Q", "W", "E", "A", "S", "D", "Z", "C", "4", "R", "F", "V" >>

\* KEY_MAP.iter().position(|x| key.eq(x)): the index from 0, or -1 for None
KeyMapPosition(key) ==
    IF \E k \in 1 .. 16 : KEY_MAP[k] = key
    THEN (CHOOSE k \in 1 .. 16 : KEY_MAP[k] = key) - 1
    ELSE -1

\* u8::from_str_radix(&key.to_string(), 16).ok() on the key names of the model: the
\* value, or -1 for None
HexKey(key) ==
    CASE key = "1" -> 1
      [] key = "A" -> 10
      [] key = "F1" -> 241
      [] OTHER -> -1

KeyOrder == << "1", "Q", "X", "A", "F1" >>

KeyNames == { KeyOrder[k] : k \in 1 .. NumKeys } \cup { "Escape", "P" }

Events ==
    { [kind |-> "Quit", key |-> ""] }
    \cup { [kind |-> "KeyDown", key |-> k] : k \in KeyNames }
    \cup { [kind |-> "KeyUp", key |-> k] : k \in KeyNames }

IsQuit(ev) == ev.kind = "Quit" \/ (ev.kind = "KeyDown" /\ ev.key = "Escape")

----------------------------------------------------------------------------
(* spawn_window and the functions it calls *)

IsCall(instr) ==
    LET nb == Nibbles(instr)
    IN  \/ nb[1] = 2
        \/ nb[1] = 0 /\ ~(nb[2] = 0 /\ nb[3] = 14 /\ nb[4] \in {0, 14})

IsReturn(instr) == instr = W(0, 0, 14, 14)
IsClear(instr) == instr = W(0, 0, 14, 0)
IsDraw(instr) == Nibbles(instr)[1] = 13
IsRandom(instr) == Nibbles(instr)[1] = 12

\* what a Dxyn about to run on c will draw: the origin, the address register and
\* the sprite rows that lie inside the memory
Sprite(c, instr) ==
    LET nb == Nibbles(instr)
    IN  [ vx |-> c.data_regs[nb[2]], vy |-> c.data_regs[nb[3]], i |-> c.addr_reg,
          bytes |-> [r \in 1 .. nb[4] |->
                        IF c.addr_reg + r - 1 < MEMORY_LEN
                        THEN c.memory[c.addr_reg + r - 1] ELSE 0] ]

\* the arms of `match chip.cycle()` that resolve a key skip: chip.ip += 2 when the
\* key the register holds is (is not) down; indexing key_matrix past 15 panics
ResolveSkip(o, km, oc) ==
    LET v == o.chip.data_regs[o.res.arg]
        down == km[v]
        take == IF o.res.tag = "SkipIfPressed" THEN down ELSE ~down
    IN  IF v > 15 THEN Out(o.chip, RPanic)
        ELSE IF take THEN SkipNext(o.chip, oc)
        ELSE Out(o.chip, ROk)

\* a host that prints the fatal error and goes on with the next cycle
PcAfter_KeepRunning(tag) ==
    CASE tag = "Panic" -> "panicked"
      [] tag = "WaitForKey" -> "wait_for_key"
      [] OTHER -> "cycles"

\* where the host goes after a cycle's result has been matched
PcAfter(tag) ==
    CASE tag = "Panic" -> "panicked"
      [] tag = "WaitForKey" -> "wait_for_key"
      [] tag \in FatalTags -> "freeze"
      [] OTHER -> "cycles"

\* one event of event_pump.poll_iter() at the top of a frame
PollEvent ==
    /\ pc = "poll"
    /\ \E ev \in Events :
        /\ pc' = IF IsQuit(ev) THEN "exited" ELSE "poll"
        /\ p' = IF ~IsQuit(ev) /\ ev.kind = "KeyDown" /\ ev.key = "P" THEN TRUE ELSE p
        /\ key_matrix' =
            IF IsQuit(ev) \/ ev.key = "P" \/ KeyMapPosition(ev.key) < 0 THEN key_matrix
            ELSE [key_matrix EXCEPT ![KeyMapPosition(ev.key)] = (ev.kind = "KeyDown")]
    /\ UNCHANGED <<chip, cycle_i, next, result, overflow_checks, fetched_at,
                   since_clear, calls>>

\* poll_iter() is exhausted: pause if P was pressed, else start the frame's cycles
PollDone ==
    /\ pc = "poll"
    /\ pc' = IF p THEN "pause" ELSE "cycles"
    /\ cycle_i' = 0
    /\ UNCHANGED <<chip, key_matrix, p, next, result, overflow_checks, fetched_at,
                   since_clear, calls>>

\* pause(): wait for P, or quit
PauseEvent ==
    /\ pc = "pause"
    /\ \E ev \in Events :
        /\ IsQuit(ev) \/ (ev.kind = "KeyDown" /\ ev.key = "P")
        /\ pc' = IF IsQuit(ev) THEN "exited" ELSE "cycles"
    /\ UNCHANGED <<chip, key_matrix, p, cycle_i, next, result, overflow_checks,
                   fetched_at, since_clear, calls>>

\* one pass of `for _ in 0..CYCLES_PER_FRAME`: chip.cycle() and the match on it
HostCycle ==
    /\ pc = "cycles"
    /\ cycle_i < CYCLES_PER_FRAME
    /\ FetchInRange(chip) /\ IsCall(Fetch(chip)) => Len(chip.stack) < MaxStack
    /\ \E rnd \in (IF FetchInRange(chip) /\ IsRandom(Fetch(chip)) THEN 0 .. U8_MAX ELSE {0}) :
        LET o == cycle(chip, rnd, overflow_checks)
            instr == IF FetchInRange(chip) THEN Fetch(chip) ELSE next
            h == IF o.res.tag \in {"SkipIfPressed", "SkipIfNotPressed"}
                 THEN ResolveSkip(o, key_matrix, overflow_checks)
                 ELSE o
        IN  /\ chip' = h.chip
            /\ result' = o.res
            /\ next' = instr
            /\ fetched_at' = chip.ip
            /\ pc' = IF h.res.tag = "Panic" THEN "panicked" ELSE PcAfter(o.res.tag)
            /\ since_clear' =
                IF ~FetchInRange(chip) \/ o.res.tag # "Ok" THEN since_clear
                ELSE IF IsClear(instr) THEN << >>
                ELSE IF IsDraw(instr) /\ Len(since_clear) < 3
                THEN Append(since_clear, Sprite(chip, instr))
                ELSE since_clear
            /\ calls' =
                IF ~FetchInRange(chip) \/ o.res.tag # "Ok" THEN calls
                ELSE IF IsCall(instr)
                THEN Append(calls, [at |-> chip.ip, stack |-> chip.stack])
                ELSE IF IsReturn(instr) THEN SubSeq(calls, 1, Len(calls) - 1)
                ELSE calls
    /\ cycle_i' = cycle_i + 1
    /\ UNCHANGED <<key_matrix, p, overflow_checks>>

\* wait_for_key(): quit, or a key whose name parses as a hex byte
WaitKeyEvent ==
    /\ pc = "wait_for_key"
    /\ \E ev \in Events :
        /\ IsQuit(ev) \/ (ev.kind = "KeyDown" /\ HexKey(ev.key) >= 0)
        /\ IF IsQuit(ev)
           THEN pc' = "exited" /\ chip' = chip
           ELSE LET c1 == SetReg(chip, result.arg, HexKey(ev.key))
                    o  == SkipNext(c1, overflow_checks)
                IN  /\ chip' = o.chip
                    /\ pc' = IF o.res.tag = "Panic" THEN "panicked" ELSE "cycles"
    /\ UNCHANGED <<key_matrix, p, cycle_i, next, result, overflow_checks, fetched_at,
                   since_clear, calls>>

\* freeze(): nothing but Quit or Q, which exit
FreezeEvent ==
    /\ pc = "freeze"
    /\ \E ev \in Events :
        /\ ev.kind = "Quit" \/ (ev.kind = "KeyDown" /\ ev.key = "Q")
        /\ pc' = "exited"
    /\ UNCHANGED <<chip, key_matrix, p, cycle_i, next, result, overflow_checks,
                   fetched_at, since_clear, calls>>

saturating_sub(a, b) == IF a - b < 0 THEN 0 ELSE a - b

\* the end of a frame: the timers, and back to the top of 'running
FrameEnd ==
    /\ pc = "cycles"
    /\ cycle_i = CYCLES_PER_FRAME
    /\ LET d == saturating_sub(chip.delay_timer, 1)
       IN  chip' = [chip EXCEPT !.delay_timer = d,
                                !.sound_timer = saturating_sub(d, 1)]
    /\ pc' = "poll"
    /\ p' = FALSE
    /\ UNCHANGED <<key_matrix, cycle_i, next, result, overflow_checks, fetched_at,
                   since_clear, calls>>

----------------------------------------------------------------------------

InitWith(images) ==
    /\ chip \in { load_program(ChipDefault, image) : image \in images }
    /\ overflow_checks \in BOOLEAN
    /\ pc = "poll"
    /\ key_matrix = [k \in 0 .. 15 |-> FALSE]
    /\ p = FALSE
    /\ cycle_i = 0
    /\ next = 0
    /\ result = [tag |-> "None", arg |-> 0]
    /\ fetched_at = 0
    /\ since_clear = << >>
    /\ calls = << >>

Init == InitWith(Programs)

Next ==
    \/ PollEvent
    \/ PollDone
    \/ PauseEvent
    \/ HostCycle
    \/ WaitKeyEvent
    \/ FreezeEvent
    \/ FrameEnd

Spec == Init /\ [][Next]_vars

----------------------------------------------------------------------------
(* What the properties below speak about *)

\* this step is one pass of the cycle loop (HostCycle is the only action that
\* counts cycle_i up)
Cycled == pc = "cycles" /\ cycle_i' = cycle_i + 1

\* this step fetches and executes an instruction word of the shape [a, _, _, e]
Executes(a, e) ==
    /\ Cycled
    /\ FetchInRange(chip)
    /\ Nibbles(Fetch(chip))[1] = a
    /\ Nibbles(Fetch(chip))[4] = e

\* the x and y of the instruction word about to be fetched
OperandX == Nibbles(Fetch(chip))[2]
OperandY == Nibbles(Fetch(chip))[3]

\* register r before and after the step
Before(r) == chip.data_regs[r]
After(r) == chip'.data_regs[r]

----------------------------------------------------------------------------
(* C1 .. C10 *)

\* C1: when cycle fetched Fx0A at address A and returned WaitForKey{x}, then once
\* the host has resolved it (a key was pressed and its code stored in register x)
\* the instruction pointer is A + 2: the host does not advance it a second time.
C1_WaitForKeyNoSecondAdvance ==
    [][(pc = "wait_for_key" /\ pc' = "cycles")
        => /\ result.tag = "WaitForKey"
           /\ chip'.data_regs[result.arg] \in 0 .. U8_MAX
           /\ chip'.ip = fetched_at + 2]_vars

\* C2: at the end of every frame the host decrements the delay timer and the sound
\* timer independently, each from its own previous value and floored at zero.
C2_TimersDecayIndependently ==
    [][(pc = "cycles" /\ pc' = "poll")
        => /\ chip'.delay_timer = IF chip.delay_timer = 0 THEN 0 ELSE chip.delay_timer - 1
           /\ chip'.sound_timer = IF chip.sound_timer = 0 THEN 0 ELSE chip.sound_timer - 1]_vars

\* C3: a cycle call always returns success, a suspending outcome or a fatal error
\* value; it never aborts through an index out of range or an arithmetic overflow.
C3_CycleNeverAborts ==
    result.tag \in {"None", "Ok"} \cup SuspendTags \cup FatalTags

\* C4: after 8xy4, for all x and y (15 included), register 15 is 1 if Vx + Vy > 255
\* and 0 otherwise, and when x is not 15, Vx is (Vx + Vy) mod 256.
C4_AddWithCarry ==
    [][Executes(8, 4)
        => LET x == OperandX
               y == OperandY
               sum == Before(x) + Before(y)
           IN  /\ After(15) = IF sum > 255 THEN 1 ELSE 0
               /\ x # 15 => After(x) = sum % 256]_vars

\* C5: after 8xy5 (minuend Vx, subtrahend Vy) and 8xy7 (minuend Vy, subtrahend Vx),
\* for all x and y, register 15 is 1 iff the minuend was less than the subtrahend,
\* and when x is not 15, Vx is (minuend - subtrahend) mod 256.
C5_SubtractWithBorrow ==
    [][Executes(8, 5) \/ Executes(8, 7)
        => LET x == OperandX
               y == OperandY
               minuend == IF Executes(8, 5) THEN Before(x) ELSE Before(y)
               subtrahend == IF Executes(8, 5) THEN Before(y) ELSE Before(x)
           IN  /\ After(15) = IF minuend < subtrahend THEN 1 ELSE 0
               /\ x # 15 => After(x) = (minuend - subtrahend) % 256]_vars

\* C6: after 8xy6, for all x and y (x = y included), register 15 is the least
\* significant bit Vy had before the instruction, and when x is not 15, Vx is the
\* old Vy shifted right by one.
C6_ShiftRight ==
    [][Executes(8, 6)
        => LET x == OperandX
               y == OperandY
           IN  /\ After(15) = Before(y) % 2
               /\ x # 15 => After(x) = Before(y) \div 2]_vars

\* C7: after 8xyE, for all x and y (x = y included), register 15 is bit 7 Vy had
\* before the instruction, and when x is not 15, Vx is (old Vy * 2) mod 256.
C7_ShiftLeft ==
    [][Executes(8, 14)
        => LET x == OperandX
               y == OperandY
           IN  /\ After(15) = Before(y) \div 128
               /\ x # 15 => After(x) = (Before(y) * 2) % 256]_vars

\* this step fetches and executes a Dxyn whose n sprite rows lie inside the memory
Draws ==
    /\ Cycled
    /\ FetchInRange(chip)
    /\ IsDraw(Fetch(chip))
    /\ chip.addr_reg + Nibbles(Fetch(chip))[4] <= MEMORY_LEN

\* cell k = row * 8 + col of the sprite about to be drawn: its bit, and the offset
\* (Vy + row) * 64 + (Vx + col) of its target
SpriteBitSet(k) == Bit(chip.memory[chip.addr_reg + (k \div 8)], 7 - (k % 8)) = 1
TargetOffset(k) ==
    (Before(OperandY) + (k \div 8)) * SCREEN_WIDTH + (Before(OperandX) + (k % 8))

\* the set sprite bits, in drawing order, whose target is at or beyond the end
OutOfBoundsBits ==
    { k \in 0 .. 8 * Nibbles(Fetch(chip))[4] - 1 :
        SpriteBitSet(k) /\ TargetOffset(k) >= VIDEO_LEN }

\* C8: a Dxyn that comes to a set sprite bit whose offset (Vy + row) * 64 + (Vx + col)
\* is at or beyond the 2048 cells (exactly 2048 included) returns DrawingOutOfBounds
\* carrying that offset, without accessing the framebuffer there.
C8_DrawOutOfBoundsIsReported ==
    [][Draws /\ OutOfBoundsBits # {}
        => LET first == CHOOSE k \in OutOfBoundsBits : \A j \in OutOfBoundsBits : k <= j
           IN  result' = RArg("DrawingOutOfBounds", TargetOffset(first))]_vars

\* a sprite has at least one set bit
HasSetBit(d) == \E r \in 1 .. Len(d.bytes) : d.bytes[r] # 0

\* the last cycle was a Dxyn that returned Ok and was the k-th draw since the
\* framebuffer was cleared
AfterDraw(k) ==
    /\ pc \in {"cycles", "poll", "pause"}
    /\ IsDraw(next)
    /\ result.tag = "Ok"
    /\ Len(since_clear) = k

\* C9: from a cleared framebuffer, a Dxyn executed twice with the same sprite bytes
\* (at least one bit set), the same address register and the same origin, both
\* returning Ok, leaves register 15 at 0 after the first draw, and after the second
\* every touched cell at 0 (the framebuffer is clear again) and register 15 at 1.
C9_DrawTwiceClears ==
    /\ AfterDraw(1) => chip.data_regs[15] = 0
    /\ (AfterDraw(2) /\ since_clear[1] = since_clear[2] /\ HasSetBit(since_clear[1]))
        => /\ \A cell \in 0 .. VIDEO_LEN - 1 : chip.video_memory[cell] = 0
           /\ chip.data_regs[15] = 1

\* a five-row sprite with set bits has been drawn twice at the same place
C9_Witness ==
    /\ AfterDraw(2)
    /\ since_clear[1] = since_clear[2]
    /\ HasSetBit(since_clear[1])
    /\ Len(since_clear[1].bytes) = 5
    /\ chip.data_regs[15] = 1

\* C10: when the return 00EE matching a call fetched at address A is executed, the
\* instruction pointer becomes A + 2 and the call stack is the sequence it was
\* before the call (calls is the history of the open calls, innermost last).
C10_CallReturnRoundTrip ==
    [][(Cycled /\ FetchInRange(chip) /\ IsReturn(Fetch(chip)) /\ result'.tag = "Ok")
        => /\ Len(calls) > 0
           /\ chip'.ip = calls[Len(calls)].at + 2
           /\ chip'.stack = calls[Len(calls)].stack]_vars

\* an inner return has been executed: the outer call is still open
C10_Witness ==
    /\ IsReturn(next)
    /\ result.tag = "Ok"
    /\ Len(chip.stack) = 1
    /\ chip.ip = fetched_at + 4

----------------------------------------------------------------------------
(* C11 .. C20 *)

\* this step fetches and executes the return 00EE
Returns == Cycled /\ FetchInRange(chip) /\ IsReturn(Fetch(chip))

\* C11: a 00EE executed while the call stack is empty returns
\* ReturnOutsideSubroutine, never success, and leaves the stack empty and the
\* registers, the address register, the memory, the framebuffer and the timers as
\* they were (only the fetch has advanced the instruction pointer); a 00EE that
\* succeeds always has an open call to return from, so the successful returns of
\* a run never outnumber its calls.
C11_ReturnOnEmptyStack ==
    [][/\ (Returns /\ chip.stack = << >>)
            => /\ result' = RErr("ReturnOutsideSubroutine")
               /\ chip' = [chip EXCEPT !.ip = chip.ip + 2]
       /\ (Returns /\ result'.tag = "Ok")
            => /\ Len(calls) > 0
               /\ Len(calls') = Len(calls) - 1]_vars

\* a 00EE has failed on the empty stack of a machine whose registers and delay
\* timer are set, and the host has stopped
C11_Witness ==
    /\ IsReturn(next)
    /\ result.tag = "ReturnOutsideSubroutine"
    /\ chip.stack = << >>
    /\ chip.data_regs[1] = 7
    /\ chip.delay_timer = 5
    /\ pc = "freeze"

NoShape(instr) ==
    LET a == Nibbles(instr)[1]
        e == Nibbles(instr)[4]
        kk == instr % 256
    IN  \/ a \in {5, 9} /\ e # 0
        \/ a = 8 /\ e \in {8, 9, 10, 11, 12, 13, 15}
        \/ a = 14 /\ kk \notin {158, 161}
        \/ a = 15 /\ kk \notin {7, 10, 21, 24, 30, 41, 51, 85, 101}

\* words with x = 0: every low byte under E and F, every last nibble (y = 1) under
\* the other first nibbles (sprites of up to 8 rows under D)
ShapeWords ==
    { WX(a, 0, kk) : a \in {14, 15}, kk \in 0 .. U8_MAX }
        \cup { W(a, 0, 1, e) : a \in 0 .. 12, e \in 0 .. 15 }
        \cup { W(13, 0, 1, e) : e \in 0 .. 8 }

\* C13: a fetched word is answered with IllegalInstruction iff it has none of the
\* instruction shapes, and then the registers, the address register, the stack,
\* the memory, the framebuffer and the timers are as they were (only the fetch has
\* advanced the instruction pointer); on the machine about to execute such a
\* word, exec answers each of the words with x = 0 (every low byte under E and
\* F, every last nibble under the other first nibbles) with IllegalInstruction
\* iff the word has no shape.
C13_IllegalIffNoShape ==
    [][(Cycled /\ FetchInRange(chip))
        => LET fetched == [chip EXCEPT !.ip = chip.ip + 2]
           IN  /\ result'.tag = "IllegalInstruction" <=> NoShape(Fetch(chip))
               /\ NoShape(Fetch(chip))
                    => /\ result' = RErr("IllegalInstruction")
                       /\ chip' = fetched
               /\ Fetch(chip) \in IllegalWords
                    => \A w \in ShapeWords :
                        exec(fetched, w, 0, overflow_checks).res.tag = "IllegalInstruction"
                            <=> NoShape(w)]_vars

\* 801F has been answered with IllegalInstruction on a machine whose address
\* register, register 1 and delay timer are set
C13_Witness ==
    /\ next = W(8, 0, 1, 15)
    /\ result.tag = "IllegalInstruction"
    /\ chip.addr_reg = 291
    /\ chip.data_regs[1] = 5
    /\ chip.delay_timer = 5
    /\ chip.ip = fetched_at + 2

\* C14: once a cycle has returned a fatal error the host is in freeze (or has left
\* it by quitting), never runs a cycle again, and the machine state never changes;
\* a cycle that returns a suspending outcome never takes the host to freeze, which
\* only a fatal error does.
C14_FatalErrorStopsRun ==
    [][/\ (Cycled /\ result'.tag \in FatalTags) => pc' = "freeze"
       /\ result.tag \in FatalTags
            => /\ pc \in {"freeze", "exited"}
               /\ pc' \in {"freeze", "exited"}
               /\ ~Cycled
               /\ chip' = chip
               /\ result' = result
       /\ (Cycled /\ result'.tag \in SuspendTags) => pc' # "freeze"
       /\ pc' = "freeze" => result'.tag \in FatalTags]_vars

\* Fx29 has failed on a code point above 15, the host froze, and the user quit:
\* the machine is as the failed cycle left it
C14_Witness ==
    /\ pc = "exited"
    /\ result.tag = "InvalidFontCodePoint"
    /\ chip.ip = fetched_at + 2
    /\ chip.addr_reg = 291
    /\ cycle_i = 3

\* this step fetches Ex9E or ExA1 and the host resolves the skip
KeySkips ==
    /\ Cycled
    /\ FetchInRange(chip)
    /\ Nibbles(Fetch(chip))[1] = 14
    /\ Fetch(chip) % 256 \in {158, 161}

\* C15: when an Ex9E (an ExA1) fetched at address A has been resolved by the host,
\* for every value v in register x and every key matrix, the instruction pointer
\* is A + 4 if key v is held (is not held) and A + 2 otherwise, the host goes on
\* with the next cycle, and nothing else of the machine has changed.
C15_KeySkipResolution ==
    [][KeySkips
        => LET v == Before(OperandX)
               held == v \in DOMAIN key_matrix /\ key_matrix[v]
               take == IF Fetch(chip) % 256 = 158 THEN held ELSE ~held
           IN  /\ pc' = "cycles"
               /\ chip' = [chip EXCEPT !.ip = chip.ip + (IF take THEN 4 ELSE 2)]]_vars

\* the machine as the fetch of this step leaves it
Fetched == [chip EXCEPT !.ip = chip.ip + 2]

\* C16: Fx29 with v in register x: if v <= 15 the instruction succeeds and the
\* address register is v * 5; if v > 15 it returns InvalidFontCodePoint and the
\* address register and all other state are as they were (only the fetch has
\* advanced the instruction pointer).
C16_FontAddress ==
    [][(Executes(15, 9) /\ OperandY = 2)
        => LET v == Before(OperandX)
           IN  IF v <= 15
               THEN /\ result' = ROk
                    /\ chip' = [Fetched EXCEPT !.addr_reg = v * 5]
               ELSE /\ result' = RErr("InvalidFontCodePoint")
                    /\ chip' = Fetched]_vars

\* FF29 has looked up the glyph of code point 15
C16_Witness ==
    /\ next = WX(15, 15, 41)
    /\ result.tag = "Ok"
    /\ chip.data_regs[15] = 15
    /\ chip.addr_reg = 75

\* C17: Fx33 with v in register x and the address register I, I + 2 inside the
\* memory: afterwards memory[I] = v div 100, memory[I + 1] = (v div 10) mod 10,
\* memory[I + 2] = v mod 10, the instruction has succeeded, and no other memory
\* cell, no register and not the address register has changed.
C17_BcdStore ==
    [][(Executes(15, 3) /\ OperandY = 3 /\ chip.addr_reg + 2 < MEMORY_LEN)
        => LET v == Before(OperandX)
               i == chip.addr_reg
           IN  /\ result' = ROk
               /\ chip' = [Fetched EXCEPT !.memory =
                            [chip.memory EXCEPT ![i] = v \div 100,
                                                ![i + 1] = (v \div 10) % 10,
                                                ![i + 2] = v % 10]]]_vars

\* FF33 has stored the digits 1, 9, 0 of 190 in the last three cells of the memory
C17_Witness ==
    /\ next = WX(15, 15, 51)
    /\ result.tag = "Ok"
    /\ chip.data_regs[15] = 190
    /\ chip.addr_reg = 4093
    /\ chip.memory[4093] = 1
    /\ chip.memory[4094] = 9
    /\ chip.memory[4095] = 0

\* the jumps 1nnn and Bnnn, the calls 0nnn and 2nnn, the return 00EE
IsTransfer(instr) ==
    \/ Nibbles(instr)[1] \in {1, 11}
    \/ IsCall(instr)
    \/ IsReturn(instr)

\* the skips 3xnn, 4xnn, 5xy0, 9xy0, Ex9E, ExA1
IsSkip(instr) ==
    \/ Nibbles(instr)[1] \in {3, 4}
    \/ Nibbles(instr)[1] \in {5, 9} /\ Nibbles(instr)[4] = 0
    \/ Nibbles(instr)[1] = 14 /\ instr % 256 \in {158, 161}

\* C18: a cycle that fetches at ip decodes the word memory[ip] * 256 +
\* memory[ip + 1] and advances the instruction pointer by 2 before it dispatches (a
\* call saves ip + 2); after the cycle the instruction pointer is ip + 2 for every
\* instruction that is not a jump, a call, a return or a skip, also when the
\* instruction returned an error or a suspending outcome, and ip + 2 or ip + 4
\* for a skip.
C18_FetchAndAdvance ==
    [][(Cycled /\ FetchInRange(chip) /\ pc' # "panicked")
        => /\ next' = chip.memory[chip.ip] * 256 + chip.memory[chip.ip + 1]
           /\ IsCall(next') => chip'.stack = Append(chip.stack, chip.ip + 2)
           /\ (~IsTransfer(next') /\ ~IsSkip(next')) => chip'.ip = chip.ip + 2
           /\ IsSkip(next') => chip'.ip \in {chip.ip + 2, chip.ip + 4}]_vars

\* FF0A, fetched at 0x200, has returned WaitForKey and the host waits for the key:
\* the instruction pointer is 0x202
C18_Witness ==
    /\ next = WX(15, 15, 10)
    /\ result = RArg("WaitForKey", 15)
    /\ pc = "wait_for_key"
    /\ fetched_at = LOAD_ADDR
    /\ chip.ip = LOAD_ADDR + 2

\* this step fetches and executes 3xnn, 4xnn, 5xy0 or 9xy0
CondSkips ==
    /\ Cycled
    /\ FetchInRange(chip)
    /\ \/ Nibbles(Fetch(chip))[1] \in {3, 4}
       \/ Nibbles(Fetch(chip))[1] \in {5, 9} /\ Nibbles(Fetch(chip))[4] = 0

\* the condition of the conditional skip about to be fetched
SkipCondition ==
    LET a == Nibbles(Fetch(chip))[1]
        nn == Fetch(chip) % 256
    IN  CASE a = 3 -> Before(OperandX) = nn
          [] a = 4 -> Before(OperandX) # nn
          [] a = 5 -> Before(OperandX) = Before(OperandY)
          [] a = 9 -> Before(OperandX) # Before(OperandY)

\* C19: after a cycle that fetches at address A one of 3xnn (Vx = nn), 4xnn
\* (Vx # nn), 5xy0 (Vx = Vy), 9xy0 (Vx # Vy), the instruction pointer is A + 4 if
\* the condition holds and A + 2 otherwise, the instruction has succeeded, and no
\* register, memory cell, stack entry or framebuffer cell has changed.
C19_ConditionalSkips ==
    [][CondSkips
        => /\ result' = ROk
           /\ chip' = [chip EXCEPT !.ip = chip.ip + (IF SkipCondition THEN 4 ELSE 2)]]_vars

\* 9F00 with VF = 7 and V0 = 8 has skipped the instruction after it
C19_Witness ==
    /\ next = W(9, 15, 0, 0)
    /\ result.tag = "Ok"
    /\ chip.data_regs[15] = 7
    /\ chip.data_regs[0] = 8
    /\ chip.ip = fetched_at + 4

\* the offsets (Vy + row) * 64 + (Vx + col) of the set bits of the sprite about to
\* be drawn
SpriteCells ==
    { TargetOffset(k) : k \in { j \in 0 .. 8 * Nibbles(Fetch(chip))[4] - 1 : SpriteBitSet(j) } }

\* C20: a Dxyn that returns Ok has flipped exactly the framebuffer cells at the
\* offsets (Vy + row) * 64 + (Vx + col) of the set bits of memory[I + row] (bit 7
\* is col 0) and left every other cell as it was; register 15 is 1 if one of
\* these cells went from 1 to 0 and 0 otherwise; every cell is 0 or 1.
C20_DrawComposites ==
    [][(Draws /\ result'.tag = "Ok")
        => /\ \A cell \in 0 .. VIDEO_LEN - 1 :
                /\ chip'.video_memory[cell] \in {0, 1}
                /\ chip'.video_memory[cell] =
                    IF cell \in SpriteCells THEN 1 - chip.video_memory[cell]
                    ELSE chip.video_memory[cell]
           /\ After(15) =
                IF \E cell \in SpriteCells \cap (0 .. VIDEO_LEN - 1) :
                        chip.video_memory[cell] = 1
                THEN 1 ELSE 0]_vars

----------------------------------------------------------------------------
(* C21 .. C23 *)

\* this step fetches and executes Fx0A
WaitsForKey == Executes(15, 10) /\ OperandY = 0

\* the outcome Ex9E, ExA1 and Fx0A stand for
SuspendTag ==
    CASE Fetch(chip) % 256 = 158 -> "SkipIfPressed"
      [] Fetch(chip) % 256 = 161 -> "SkipIfNotPressed"
      [] OTHER -> "WaitForKey"

\* C21: Ex9E, ExA1 and Fx0A return SkipIfPressed, SkipIfNotPressed and WaitForKey,
\* carrying the second nibble x of the word; the cycle leaves every register,
\* timer, stack entry, memory cell and framebuffer cell as it was and the
\* instruction pointer at the fetch's ip + 2 (what the host then does on a key
\* skip touches the instruction pointer only).
C21_SuspendingMutatesNothing ==
    [][(KeySkips \/ WaitsForKey)
        => /\ cycle(chip, 0, overflow_checks) = Out(Fetched, RArg(SuspendTag, OperandX))
           /\ result' = RArg(SuspendTag, OperandX)
           /\ [chip' EXCEPT !.ip = 0] = [chip EXCEPT !.ip = 0]
           /\ WaitsForKey => chip' = Fetched]_vars

\* FF0A has returned WaitForKey{15} on a machine with an open call, a drawn
\* glyph, and the address register, register 15 and the delay timer set
C21_Witness ==
    /\ next = WX(15, 15, 10)
    /\ result = RArg("WaitForKey", 15)
    /\ pc = "wait_for_key"
    /\ chip.stack = << LOAD_ADDR + 2 >>
    /\ chip.video_memory[0] = 1
    /\ chip.addr_reg = 291
    /\ chip.data_regs[15] = 1
    /\ chip.delay_timer = 5
    /\ chip.ip = fetched_at + 2

\* this step fetches and executes Fx55 (Fx65) with memory[I .. I + x] inside the
\* memory
Stores == Executes(15, 5) /\ OperandY = 5 /\ chip.addr_reg + OperandX < MEMORY_LEN
Loads == Executes(15, 5) /\ OperandY = 6 /\ chip.addr_reg + OperandX < MEMORY_LEN

\* C22: Fx55 writes V0 .. Vx to memory[I .. I + x] and changes no register and no
\* other memory cell; Fx65 sets V0 .. Vx from memory[I .. I + x] and changes no
\* register above x and no memory; neither changes the address register (nor
\* anything else but the fetch's ip + 2); an Fx65 that follows an Fx55 of the same
\* x leaves V0 .. Vx at the stored values.
C22_StoreLoadRegisters ==
    [][LET x == OperandX
           i == chip.addr_reg
       IN  /\ Stores
                => /\ result' = ROk
                   /\ chip' = [Fetched EXCEPT !.memory =
                                [a \in 0 .. MEMORY_LEN - 1 |->
                                    IF a \in i .. i + x THEN Before(a - i)
                                    ELSE chip.memory[a]]]
           /\ Loads
                => /\ result' = ROk
                   /\ chip' = [Fetched EXCEPT !.data_regs =
                                [r \in 0 .. 15 |->
                                    IF r <= x THEN chip.memory[i + r] ELSE Before(r)]]
           /\ (Loads /\ next = WX(15, x, 85) /\ result = ROk)
                => \A r \in 0 .. x : After(r) = Before(r)]_vars

\* FF65 has restored V0, V1 and VF, overwritten since FF55 stored them in the last
\* 16 cells of the memory
C22_Witness ==
    /\ next = WX(15, 15, 101)
    /\ result.tag = "Ok"
    /\ chip.addr_reg = 4080
    /\ chip.memory[4080] = 17
    /\ chip.memory[4095] = 51
    /\ chip.data_regs[0] = 17
    /\ chip.data_regs[1] = 34
    /\ chip.data_regs[15] = 51
    /\ fetched_at = LOAD_ADDR + 16

\* words with x and y in {0, 7, 15}: every first and last nibble (sprites of up
\* to 8 rows under D), and every low byte under E and F
RegisterWords ==
    { W(a, x, y, e) : a \in (0 .. 15) \ {13}, x \in {0, 7, 15}, y \in {0, 7, 15}, e \in 0 .. 15 }
        \cup { W(13, x, y, e) : x \in {0, 7, 15}, y \in {0, 7, 15}, e \in 0 .. 8 }
        \cup { WX(a, x, kk) : a \in {14, 15}, x \in {0, 7, 15}, kk \in 0 .. U8_MAX }

\* C23: no cycle returns InvalidRegister; the x and y of every fetched word are
\* within 0 .. 15; on the machine about to execute 801F, each of the 65536 words
\* splits into four nibbles within 0 .. 15, and exec answers none of the words
\* with x and y in {0, 7, 15} with InvalidRegister.
C23_InvalidRegisterUnreachable ==
    [][(Cycled /\ FetchInRange(chip))
        => /\ result'.tag # "InvalidRegister"
           /\ OperandX \in 0 .. 15
           /\ OperandY \in 0 .. 15
           /\ Fetch(chip) = W(8, 0, 1, 15)
                => /\ \A w \in 0 .. U16_MAX : \A k \in 1 .. 4 : Nibbles(w)[k] \in 0 .. 15
                   /\ \A w \in RegisterWords :
                        exec(Fetched, w, 0, overflow_checks).res.tag # "InvalidRegister"]_vars

\* DF15, whose x is 15, has drawn its five rows
C23_Witness ==
    /\ next = W(13, 15, 1, 5)
    /\ result.tag = "Ok"
    /\ chip.video_memory[0] = 1

====
